---- MODULE Spec2Model ----
(***************************************************************************)
(* Model of the synthesis orchestration of main.py (class MainWindow with  *)
(* TTSEngineService and SynthesisWorker): the busy gate, the three pending *)
(* fields, the auto-generate timer and the preview cache.                  *)
(*                                                                         *)
(* Each slot of MainWindow runs to completion on the control thread and is *)
(* one action.  A slot is an operator from the window's state (a record    *)
(* with one field per attribute) to the state it leaves, so that a slot    *)
(* calling another slot is operator application.  The slots are taken as   *)
(* callable in every state: they are the interface of the orchestrator,    *)
(* the busy guards written in them are what decides a request made while a *)
(* job runs, and on_save does go on while a job runs when the job starts   *)
(* during its file dialog.  The enabled state of the buttons, the message  *)
(* boxes and the labels are not modelled.                                  *)
(*                                                                         *)
(* The histories op, priority_run, lookups, latch, burst, stale and saved   *)
(* are written only in the behaviours that record them (SpecRequests,      *)
(* SpecJobs, SpecLookups, SpecLatch, SpecDebounce, SpecSave, SpecDir); no   *)
(* slot reads them.  SpecDebounce also follows the clock of the            *)
(* auto-generate timer; elsewhere an active timer may time out at any      *)
(* moment.  SpecPitch, SpecVolume and SpecSynth call one method of         *)
(* TTSEngineService on its own with arguments and files drawn from small   *)
(* sets.                                                                   *)
(*                                                                         *)
(* Pitch values are integers in units of 0.0001, so that 1.0 is 10000 and  *)
(* the item data 75 of the pitch combo box (75 / 100.0) is 7500.           *)
(* Temporary wav paths are the naturals handed                             *)
(* out by mkstemp, each one a name that no file has; 0 is the empty        *)
(* string.  A temporary file that no attribute, worker or queued signal    *)
(* names any more cannot be read again by any slot and is dropped from the *)
(* file map, which frees its name.                                         *)
(***************************************************************************)
EXTENDS Integers, Sequences, FiniteSets, TLC

\* ------------------------------------------------------ program constants
max_amp == 32767
min_amp == -32768
DEFAULT_RATE == 180
AUTO_GENERATE_DELAY_MS == 500
AUTO_GENERATE_DELAY_LARGE_MS == 1200
LARGE_TEXT_THRESHOLD == 800
PASTE_DELTA_THRESHOLD == 200
PITCH_MIN == 5000
PITCH_MAX == 20000

\* the pitch 1.0: no shift
PITCH_NEUTRAL == 10000

\* the pitch combo's items offered to the user (item data / 100.0)
PitchOptions == {7500, 10000, 12500}

\* texts the user can have in the editor: its length and whether strip() is empty
Texts ==
    { [len |-> 0, blank |-> TRUE],
      [len |-> 3, blank |-> TRUE],
      [len |-> 3, blank |-> FALSE] }

\* texts for the edits the debounce policy tells apart (deltas of 199 and 200
\* characters, lengths of 799 and 800, the paste of 850 characters)
EditTexts ==
    { [len |-> 0, blank |-> TRUE] }
        \cup { [len |-> n, blank |-> FALSE] : n \in {1, 200, 201, 799, 800, 850} }

\* the rate combo's items offered to the user
RateOptions == {150, 180}

\* how far the clock moves in one step (ms), the timer's expiry at the latest
TimeSteps == {300}

\* file names the save dialog can return ("" is a cancelled dialog)
SavePaths == {"out.wav"}

\* the model files of a voices directory that has any (the combo's item data)
Voices == {1, 2}

\* outcomes of one resampler (ffmpeg) use: not on PATH, exit # 0, exit 0
FfmpegOutcomes == {"missing", "fail", "ok"}

\* pitches a caller of apply_pitch_to_wav passes: 0.49, 0.5, 2.0 and 2.01,
\* values on both sides of 1.0 -+ 0.001, and pitches of the combo box
PitchValues == {4900, 5000, 7500, 9989, 9991, 10000, 10009, 10011, 20000, 20100}

\* sample values of a 16-bit wav a caller of _apply_volume_to_wav passes
SampleValues == {-32768, -20000, -1, 0, 1, 16384, 20000, 32767}

\* its volume argument in percent (volume = percent / 100.0), some beyond
\* the factors 0.0 and 2.0
VolumeValues == {-10, 0, 50, 90, 100, 150, 199, 200, 250}

\* the wav files it reads: 16-bit ones of one or two samples and an 8-bit one
WavFiles ==
    { [sampwidth |-> 2, samples |-> << a >>] : a \in SampleValues }
        \cup { [sampwidth |-> 2, samples |-> << a, b >>] :
                  a \in SampleValues, b \in SampleValues }
        \cup { [sampwidth |-> 1, samples |-> << 0, 255 >>] }

\* rates a caller of _rate_to_length_scale passes: the rate combo's items,
\* rates around the limits 0.5 (rate 360) and 2.0 (rate 90) of the scale, and
\* rates that are not positive
RateValues ==
    {-10, 0, 1, 45, 89, 90, 91, 120, 150, 180, 210, 240, 300, 320, 359, 360,
     361, 1000}

\* file names the save dialog can return where the export is followed
ExportPaths == {"out.wav", "out.mp3"}

\* outcomes of one mp3 encoding (pydub): an exception, the file written
EncoderOutcomes == {"fail", "ok"}

VARIABLES
    text,                  \* text_edit content
    voice,                 \* voice_combo current item, 0 = currentData() is None
    pitch,                 \* pitch_combo currentData()
    rate,                  \* rate_combo currentData()
    auto_toggle,           \* auto_toggle.isChecked()
    playback,              \* _player.playbackState()
    last_wav_path,
    preview_wav_path,
    preview_pitch,
    pending_preview,
    pending_save_path,
    auto_generate_enabled,
    auto_pending,
    is_busy,
    last_text_len,
    timer_active,          \* _auto_timer.isActive()
    timer_interval,        \* _auto_timer.interval()
    timer_remaining,       \* _auto_timer.remainingTime() of the active timer
                           \* where the clock is modelled, else 0
    workers,               \* SynthesisWorker threads whose subprocess is running
    signals,               \* finished signals queued to the control thread
    files,                 \* temporary wav files on disk: path -> content
    saved,                 \* history: how the last _save_to_path ended and how
                           \* many temporary files it made and left on disk
    lookups,               \* history: outcomes of the preview lookups since the
                           \* last new result, pitch change or directory change
    op,                    \* history: the request slot that ran last, and
                           \* _is_busy when it was entered
    priority_run,          \* history: how far the run "auto-retry, then save,
                           \* then preview recorded under one job" has come
    latch,                 \* history: whether on_generate was ever entered and
                           \* whether the user ever checked the auto toggle
    burst,                 \* history: the text edits that restarted the timer
                           \* one after the other, and what its timeout started
    stale,                 \* history: the job in flight was started before
                           \* the last change of the voices directory
    call,                  \* the call of a TTSEngineService method made on
                           \* its own: its arguments, then also its result
    recording              \* which histories this behaviour records

vars ==
    << text, voice, pitch, rate, auto_toggle, playback, last_wav_path,
       preview_wav_path, preview_pitch, pending_preview, pending_save_path,
       auto_generate_enabled, auto_pending, is_busy, last_text_len,
       timer_active, timer_interval, timer_remaining, workers, signals, files,
       saved, lookups, op, priority_run, latch, burst, stale, call, recording >>

\* the window's state as one record
St ==
    [ text |-> text, voice |-> voice, pitch |-> pitch, rate |-> rate,
      auto_toggle |-> auto_toggle, playback |-> playback,
      last_wav_path |-> last_wav_path, preview_wav_path |-> preview_wav_path,
      preview_pitch |-> preview_pitch, pending_preview |-> pending_preview,
      pending_save_path |-> pending_save_path,
      auto_generate_enabled |-> auto_generate_enabled,
      auto_pending |-> auto_pending, is_busy |-> is_busy,
      last_text_len |-> last_text_len, timer_active |-> timer_active,
      timer_interval |-> timer_interval, timer_remaining |-> timer_remaining,
      workers |-> workers,
      signals |-> signals, files |-> files, saved |-> saved,
      lookups |-> lookups, recording |-> recording ]

\* the next state is the record s
Becomes(s) ==
    /\ text' = s.text
    /\ voice' = s.voice
    /\ pitch' = s.pitch
    /\ rate' = s.rate
    /\ auto_toggle' = s.auto_toggle
    /\ playback' = s.playback
    /\ last_wav_path' = s.last_wav_path
    /\ preview_wav_path' = s.preview_wav_path
    /\ preview_pitch' = s.preview_pitch
    /\ pending_preview' = s.pending_preview
    /\ pending_save_path' = s.pending_save_path
    /\ auto_generate_enabled' = s.auto_generate_enabled
    /\ auto_pending' = s.auto_pending
    /\ is_busy' = s.is_busy
    /\ last_text_len' = s.last_text_len
    /\ timer_active' = s.timer_active
    /\ timer_interval' = s.timer_interval
    /\ timer_remaining' = s.timer_remaining
    /\ workers' = s.workers
    /\ signals' = s.signals
    /\ files' = s.files
    /\ saved' = s.saved
    /\ lookups' = s.lookups
    /\ recording' = s.recording

\* ------------------------------------------------------------ file helpers
EmptyFile == [kind |-> "empty", src |-> 0, pitch |-> 0]

\* what piper writes at out_path
SynthFile(path) == [kind |-> "synth", src |-> path, pitch |-> PITCH_NEUTRAL]

\* what ffmpeg writes for the source file src_path resampled by pitch
PitchFile(src_path, p) == [kind |-> "pitch", src |-> src_path, pitch |-> p]

path_exists(s, path) == path \in DOMAIN s.files

file_put(fs, path, content) == (path :> content) @@ fs

file_remove(fs, path) == [p \in (DOMAIN fs) \ {path} |-> fs[p]]

Abs(x) == IF x < 0 THEN -x ELSE x

\* abs(a - b) < 0.001
PitchNear(a, b) == Abs(a - b) < 10

\* the name tempfile.mkstemp picks: one that no file has
fresh_path(s) ==
    CHOOSE p \in 1 .. (Cardinality(DOMAIN s.files) + 1) :
        /\ p \notin DOMAIN s.files
        /\ \A q \in 1 .. (p - 1) : q \in DOMAIN s.files

\* _new_temp_wav / tempfile.mkstemp: a fresh, empty file
new_temp_wav(s) == [s EXCEPT !.files = file_put(s.files, fresh_path(s), EmptyFile)]

\* -------------------------------------------------------- TTSEngineService
\* the resampler run by apply_pitch_to_wav for a pitch in range, with
\* output_path the file ffmpeg is told to write
resample(s, src_path, dest_path, p, ffmpeg, direct) ==
    IF ffmpeg = "missing"
    THEN [st |-> s, ok |-> FALSE, err |-> "missing", ran |-> FALSE]
    ELSE IF direct
    THEN IF ffmpeg = "fail"
         THEN [st |-> [s EXCEPT !.files = file_put(@, dest_path, EmptyFile)],
               ok |-> FALSE, err |-> "failed", ran |-> TRUE]
         ELSE [st |-> [s EXCEPT !.files =
                          file_put(@, dest_path, PitchFile(src_path, p))],
               ok |-> TRUE, err |-> "", ran |-> TRUE]
    ELSE LET tmp_path == fresh_path(s)
             s1 == new_temp_wav(s)
         IN  IF ffmpeg = "fail"
             THEN [st |-> s1, ok |-> FALSE, err |-> "failed", ran |-> TRUE]
             ELSE [st |-> [s1 EXCEPT !.files =
                              file_put(file_remove(@, tmp_path), dest_path,
                                       PitchFile(src_path, p))],
                   ok |-> TRUE, err |-> "", ran |-> TRUE]

\* the copy apply_pitch_to_wav makes for a pitch of 1.0
copy_through(s, src_path, dest_path) ==
    [st |-> IF src_path # dest_path
            THEN [s EXCEPT !.files = file_put(@, dest_path, s.files[src_path])]
            ELSE s,
     ok |-> TRUE, err |-> "", ran |-> FALSE]

\* apply_pitch_to_wav with ffmpeg writing the destination itself
apply_pitch_to_wav_direct(s, src_path, dest_path, p, ffmpeg) ==
    IF PitchNear(p, PITCH_NEUTRAL)
    THEN copy_through(s, src_path, dest_path)
    ELSE IF p < PITCH_MIN \/ p > PITCH_MAX
    THEN [st |-> s, ok |-> FALSE, err |-> "range", ran |-> FALSE]
    ELSE resample(s, src_path, dest_path, p, ffmpeg, TRUE)

\* apply_pitch_to_wav refusing the limits 0.5 and 2.0 themselves
apply_pitch_to_wav_open_range(s, src_path, dest_path, p, ffmpeg) ==
    IF PitchNear(p, PITCH_NEUTRAL)
    THEN copy_through(s, src_path, dest_path)
    ELSE IF p <= PITCH_MIN \/ p >= PITCH_MAX
    THEN [st |-> s, ok |-> FALSE, err |-> "range", ran |-> FALSE]
    ELSE resample(s, src_path, dest_path, p, ffmpeg, FALSE)

\* apply_pitch_to_wav copying for the pitch 1.0 only
apply_pitch_to_wav_exact_neutral(s, src_path, dest_path, p, ffmpeg) ==
    IF p = PITCH_NEUTRAL
    THEN copy_through(s, src_path, dest_path)
    ELSE IF p < PITCH_MIN \/ p > PITCH_MAX
    THEN [st |-> s, ok |-> FALSE, err |-> "range", ran |-> FALSE]
    ELSE resample(s, src_path, dest_path, p, ffmpeg, FALSE)

\* apply_pitch_to_wav(src_path, dest_path, pitch); ok = FALSE is a raised
\* RuntimeError, err tells which one, and ran whether the ffmpeg subprocess
\* was run.  The private temporary file is left behind when ffmpeg exits
\* non-zero.
apply_pitch_to_wav(s, src_path, dest_path, p, ffmpeg) ==
    IF PitchNear(p, PITCH_NEUTRAL)
    THEN [st |-> IF src_path # dest_path
                 THEN [s EXCEPT !.files = file_put(@, dest_path, s.files[src_path])]
                 ELSE s,
          ok |-> TRUE, err |-> "", ran |-> FALSE]
    ELSE IF p < PITCH_MIN \/ p > PITCH_MAX
    THEN [st |-> s, ok |-> FALSE, err |-> "range", ran |-> FALSE]
    ELSE IF ffmpeg = "missing"
    THEN [st |-> s, ok |-> FALSE, err |-> "missing", ran |-> FALSE]
    ELSE LET tmp_path == fresh_path(s)
             s1 == new_temp_wav(s)
         IN  IF ffmpeg = "fail"
             THEN [st |-> s1, ok |-> FALSE, err |-> "failed", ran |-> TRUE]
             ELSE [st |-> [s1 EXCEPT !.files =
                              file_put(file_remove(@, tmp_path), dest_path,
                                       PitchFile(src_path, p))],
                   ok |-> TRUE, err |-> "", ran |-> TRUE]

\* _rate_to_length_scale without the clamp
rate_to_length_scale_unclamped(r) ==
    IF r <= 0
    THEN [num |-> 1, den |-> 1]
    ELSE [num |-> DEFAULT_RATE, den |-> r]

\* _rate_to_length_scale(rate): the scale as the fraction num / den, with
\* MIN_LENGTH_SCALE = 1/2 and MAX_LENGTH_SCALE = 2/1
rate_to_length_scale(r) ==
    IF r <= 0
    THEN [num |-> 1, den |-> 1]
    ELSE IF DEFAULT_RATE > 2 * r
    THEN [num |-> 2, den |-> 1]
    ELSE IF 2 * DEFAULT_RATE < r
    THEN [num |-> 1, den |-> 2]
    ELSE [num |-> DEFAULT_RATE, den |-> r]

\* f"{length_scale:.3f}" as a number of thousandths: the nearest one, the
\* even one of two equally near (such a scale is a binary fraction: 0.5625,
\* 0.9375)
format_3f(q) ==
    LET n == (1000 * q.num) \div q.den
        twice_rest == 2 * ((1000 * q.num) % q.den)
    IN  IF twice_rest > q.den \/ (twice_rest = q.den /\ n % 2 = 1)
        THEN n + 1
        ELSE n

\* the command of synthesize_to_wav with the pitch handed to piper as well
synth_command_with_pitch(txt, config, out_path) ==
    << "python", "-m", "piper", "-m", config.voice_id, "-f", out_path,
       "--length_scale", format_3f(rate_to_length_scale(config.rate)),
       "--pitch", config.pitch, "--", txt >>

\* synthesize_to_wav(text, config, out_path): the command it runs
synth_command(txt, config, out_path) ==
    << "python", "-m", "piper", "-m", config.voice_id, "-f", out_path,
       "--length_scale", format_3f(rate_to_length_scale(config.rate)),
       "--", txt >>

\* int(x) of the float x = n / 100: the fraction is dropped
int_of_hundredths(n) == IF n >= 0 THEN n \div 100 ELSE -((-n) \div 100)

\* one sample scaled with the result wrapped into 16 bits
scale_sample_wrapping(value, volume_factor) ==
    ((int_of_hundredths(value * volume_factor) - min_amp) % (max_amp - min_amp + 1))
        + min_amp

\* the loop body of _apply_volume_to_wav: one sample scaled and clamped;
\* volume_factor is in percent
scale_sample(value, volume_factor) ==
    LET scaled == int_of_hundredths(value * volume_factor)
    IN  IF scaled > max_amp THEN max_amp
        ELSE IF scaled < min_amp THEN min_amp
        ELSE scaled

\* no file at the path
NoWav == [sampwidth |-> 0, samples |-> << >>]

\* _apply_volume_to_wav(src_path, dest_path, volume): the content of the
\* file at dest_path afterwards, from the content src of the file at
\* src_path and the content dest of the file at dest_path before
apply_volume_to_wav(src, dest, same_path, volume) ==
    LET volume_factor == IF volume < 0 THEN 0 ELSE IF volume > 200 THEN 200 ELSE volume
    IN  IF volume_factor = 100
        THEN IF ~same_path THEN src ELSE dest
        ELSE IF src.sampwidth # 2
        THEN dest
        ELSE [src EXCEPT !.samples =
                 [i \in DOMAIN @ |-> scale_sample(@[i], volume_factor)]]

\* what _apply_volume_to_wav hands to its caller: every path ends in a bare
\* return, none raises for the sample width
apply_volume_returns(src, volume) == "None"

\* ------------------------------------------------------------- MainWindow
\* not self._last_wav_path or not os.path.exists(self._last_wav_path)
no_last_wav(s) == s.last_wav_path = 0 \/ ~path_exists(s, s.last_wav_path)

\* the cache test with the cached pitch compared to the neutral pitch
preview_cached_neutral(s, p) ==
    /\ s.preview_wav_path # 0
    /\ PitchNear(s.preview_pitch, PITCH_NEUTRAL)
    /\ path_exists(s, s.preview_wav_path)

\* the cache test of _ensure_preview_audio
preview_cached(s, p) ==
    /\ s.preview_wav_path # 0
    /\ PitchNear(s.preview_pitch, p)
    /\ path_exists(s, s.preview_wav_path)

\* history: the outcomes of the first two lookups
logged(s, outcome) ==
    IF "lookups" \in s.recording /\ Len(s.lookups) < 2
    THEN [s EXCEPT !.lookups = Append(@, outcome)]
    ELSE s

\* _ensure_preview_audio: ret is the returned path, 0 for ""
ensure_preview_audio(s, ffmpeg) ==
    IF no_last_wav(s)
    THEN [st |-> s, ret |-> 0]
    ELSE IF PitchNear(s.pitch, PITCH_NEUTRAL)
    THEN [st |-> [s EXCEPT !.preview_wav_path = 0, !.preview_pitch = s.pitch],
          ret |-> s.last_wav_path]
    ELSE IF preview_cached(s, s.pitch)
    THEN [st |-> logged(s, "hit"), ret |-> s.preview_wav_path]
    ELSE LET tmp_path == fresh_path(s)
             s1 == new_temp_wav(s)
             r == apply_pitch_to_wav(s1, s.last_wav_path, tmp_path, s.pitch, ffmpeg)
         IN  IF ~r.ok
             THEN [st |-> logged(r.st, "fail"), ret |-> 0]
             ELSE [st |-> [logged(r.st, "ok") EXCEPT
                              !.preview_wav_path = tmp_path,
                              !.preview_pitch = s.pitch],
                   ret |-> tmp_path]

\* _set_busy
set_busy(s, busy) == [s EXCEPT !.is_busy = busy]

\* _auto_timer.start() leaving a timer that is running as it is
timer_start_once(s) ==
    IF s.timer_active
    THEN s
    ELSE [s EXCEPT !.timer_active = TRUE,
                   !.timer_remaining =
                       IF "clock" \in s.recording THEN s.timer_interval ELSE 0]

\* _auto_timer.start(): (re)starts the single-shot timer with its interval
timer_start(s) ==
    [s EXCEPT !.timer_active = TRUE,
              !.timer_remaining =
                  IF "clock" \in s.recording THEN s.timer_interval ELSE 0]

\* _schedule_auto_generate without the test of _auto_generate_enabled
schedule_auto_generate_unlatched(s, delay_ms) ==
    IF s.is_busy
    THEN [s EXCEPT !.auto_pending = TRUE]
    ELSE timer_start([s EXCEPT !.timer_interval =
                         IF delay_ms # 0 THEN delay_ms ELSE AUTO_GENERATE_DELAY_MS])

\* _schedule_auto_generate(delay_ms); delay_ms = 0 is None
schedule_auto_generate(s, delay_ms) ==
    IF ~s.auto_generate_enabled
    THEN s
    ELSE IF s.is_busy
    THEN [s EXCEPT !.auto_pending = TRUE]
    ELSE timer_start([s EXCEPT !.timer_interval =
                         IF delay_ms # 0 THEN delay_ms ELSE AUTO_GENERATE_DELAY_MS])

\* _ensure_text: the stripped text is empty
text_missing(s) == s.text.blank

\* SynthesisWorker(...).start()
worker_start(s, out_path) ==
    [s EXCEPT !.workers = @ \cup {[out_path |-> out_path]}]

\* _generate_audio without the busy gate
generate_audio_ungated(s, manual) ==
    IF text_missing(s)
    THEN s
    ELSE IF s.voice = 0
    THEN s
    ELSE LET s1 == IF manual THEN [s EXCEPT !.auto_generate_enabled = TRUE] ELSE s
             out_path == fresh_path(s1)
             s2 == new_temp_wav(s1)
         IN  worker_start(set_busy(s2, TRUE), out_path)

\* _generate_audio with the busy gate recording no auto-retry
generate_audio_forgetful(s, manual) ==
    IF s.is_busy THEN s ELSE generate_audio_ungated(s, manual)

\* _generate_audio(manual)
generate_audio(s, manual) ==
    IF s.is_busy
    THEN IF ~manual THEN [s EXCEPT !.auto_pending = TRUE] ELSE s
    ELSE IF text_missing(s)
    THEN s
    ELSE IF s.voice = 0
    THEN s
    ELSE LET s1 == IF manual THEN [s EXCEPT !.auto_generate_enabled = TRUE] ELSE s
             out_path == fresh_path(s1)
             s2 == new_temp_wav(s1)
         IN  worker_start(set_busy(s2, TRUE), out_path)

\* auto_toggle.setChecked(checked): toggled is emitted on a change only and
\* runs _on_auto_toggle
set_checked(s, checked) ==
    IF s.auto_toggle = checked
    THEN s
    ELSE [s EXCEPT !.auto_toggle = checked, !.auto_generate_enabled = checked]

\* on_generate
on_generate(s) == generate_audio(set_checked(s, TRUE), TRUE)

\* on_preview
on_preview(s, ffmpeg) ==
    IF no_last_wav(s)
    THEN on_generate([s EXCEPT !.pending_preview = TRUE])
    ELSE IF s.playback = "Playing"
    THEN [s EXCEPT !.playback = "Paused"]
    ELSE IF s.playback = "Paused"
    THEN [s EXCEPT !.playback = "Playing"]
    ELSE LET r == ensure_preview_audio(s, ffmpeg)
         IN  IF r.ret = 0
             THEN r.st
             ELSE [r.st EXCEPT !.playback = "Playing"]

\* os.path.splitext(file_path)[1].lower()
splitext(file_path) == IF file_path = "out.mp3" THEN ".mp3" ELSE ".wav"

\* history: how _save_to_path ended and how many files it made and left
save_logged(s, before, exit) ==
    IF "save" \in s.recording
    THEN [s EXCEPT !.saved =
             [exit |-> exit,
              left |-> Cardinality((DOMAIN s.files) \ (DOMAIN before.files))]]
    ELSE s

\* _save_to_path(file_path): the pitch stage, the export stage (an mp3 is
\* encoded, a wav is copied or written with the gain applied), and the
\* finally clause that removes temp_pitch; the exported file is read by no slot
save_to_path(s, file_path, ffmpeg, encoder) ==
    LET shifted == ~PitchNear(s.pitch, PITCH_NEUTRAL)
        temp_pitch == IF shifted THEN fresh_path(s) ELSE 0
        r == IF shifted
             THEN apply_pitch_to_wav(new_temp_wav(s), s.last_wav_path, temp_pitch,
                                     s.pitch, ffmpeg)
             ELSE [st |-> s, ok |-> TRUE, err |-> "", ran |-> FALSE]
        exit == IF ~r.ok THEN "pitch"
                ELSE IF splitext(file_path) = ".mp3" /\ encoder = "fail" THEN "export"
                ELSE "ok"
        s2 == IF temp_pitch # 0 /\ path_exists(r.st, temp_pitch)
              THEN [r.st EXCEPT !.files = file_remove(@, temp_pitch)]
              ELSE r.st
    IN  save_logged(s2, s, exit)

\* storing the new result with the cached preview path kept
store_result_keep_preview(s, path) ==
    [s EXCEPT !.last_wav_path = path,
              !.preview_pitch = PITCH_NEUTRAL,
              !.lookups = << >>]

\* _on_generated, success: the new result replaces the old one and the cache
store_result(s, path) ==
    [s EXCEPT !.last_wav_path = path,
              !.preview_wav_path = 0,
              !.preview_pitch = PITCH_NEUTRAL,
              !.lookups = << >>]

\* _on_generated, success: which pending field the if-chain takes
drain_choice(s) ==
    IF s.pending_preview THEN "preview"
    ELSE IF s.pending_save_path # "" THEN "save"
    ELSE IF s.auto_pending THEN "auto"
    ELSE "none"

\* _on_generated, success: the if-chain over the pending fields
drain_pending(s, ffmpeg, encoder) ==
    CASE drain_choice(s) = "preview" ->
             on_preview([s EXCEPT !.pending_preview = FALSE], ffmpeg)
      [] drain_choice(s) = "save" ->
             save_to_path([s EXCEPT !.pending_save_path = ""],
                          s.pending_save_path, ffmpeg, encoder)
      [] drain_choice(s) = "auto" ->
             timer_start([s EXCEPT !.auto_pending = FALSE])
      [] OTHER -> s

\* _on_generated taking the pending action before it stores the result
on_generated_drain_first(s, ok, path, ffmpeg, encoder) ==
    IF ~ok
    THEN set_busy(s, FALSE)
    ELSE store_result(drain_pending(set_busy(s, FALSE), ffmpeg, encoder), path)

\* _on_generated emptying the preview cache after a failure as well
on_generated_failure_resets(s, ok, path, ffmpeg, encoder) ==
    IF ~ok
    THEN [set_busy(s, FALSE) EXCEPT !.preview_wav_path = 0,
                                    !.preview_pitch = PITCH_NEUTRAL]
    ELSE drain_pending(store_result(set_busy(s, FALSE), path), ffmpeg, encoder)

\* _on_generated leaving the busy flag set after a failure
on_generated_stuck(s, ok, path, ffmpeg, encoder) ==
    IF ~ok
    THEN s
    ELSE drain_pending(store_result(set_busy(s, FALSE), path), ffmpeg, encoder)

\* _on_generated(ok, message, path)
on_generated(s, ok, path, ffmpeg, encoder) ==
    IF ~ok
    THEN set_busy(s, FALSE)
    ELSE drain_pending(store_result(set_busy(s, FALSE), path), ffmpeg, encoder)

\* on_save; file_path is what the save dialog returns
on_save(s, file_path, ffmpeg, encoder) ==
    IF text_missing(s)
    THEN s
    ELSE IF file_path = ""
    THEN s
    ELSE IF no_last_wav(s)
    THEN on_generate([s EXCEPT !.pending_save_path = file_path])
    ELSE save_to_path(s, file_path, ffmpeg, encoder)

\* the delay of _on_text_changed with the thresholds themselves excluded
text_delay_strict(text_len, delta) ==
    IF delta > PASTE_DELTA_THRESHOLD \/ text_len > LARGE_TEXT_THRESHOLD
    THEN AUTO_GENERATE_DELAY_LARGE_MS
    ELSE 0

\* the delay _on_text_changed asks for; 0 is the default (None)
text_delay(text_len, delta) ==
    IF delta >= PASTE_DELTA_THRESHOLD \/ text_len >= LARGE_TEXT_THRESHOLD
    THEN AUTO_GENERATE_DELAY_LARGE_MS
    ELSE 0

\* _on_text_changed, after the editor's text became t
on_text_changed(s, t) ==
    LET text_len == t.len
        delta == text_len - s.last_text_len
        s1 == [s EXCEPT !.text = t, !.last_text_len = text_len]
    IN  schedule_auto_generate(s1, text_delay(text_len, delta))

\* _on_params_changed restarting the timer with the interval it has
on_params_changed_same_interval(s) == schedule_auto_generate(s, s.timer_interval)

\* _on_params_changed
on_params_changed(s) == schedule_auto_generate(s, 0)

\* _on_pitch_changed, after the pitch combo's item became p
on_pitch_changed(s, p, ffmpeg) ==
    LET s1 == [s EXCEPT !.pitch = p,
                        !.preview_wav_path = 0,
                        !.preview_pitch = p,
                        !.lookups = << >>]
    IN  IF s1.playback # "Stopped"
        THEN LET r == ensure_preview_audio([s1 EXCEPT !.playback = "Stopped"], ffmpeg)
             IN  IF r.ret # 0
                 THEN [r.st EXCEPT !.playback = "Playing"]
                 ELSE r.st
        ELSE s1

\* _load_voices for a directory with the model files found: clear() and the
\* first addItem each change the current index, which runs _on_params_changed
load_voices(s, found) ==
    LET s1 == [s EXCEPT !.voice = IF found # {} THEN 1 ELSE 0]
    IN  IF s.voice # 0 \/ found # {} THEN on_params_changed(s1) ELSE s1

\* on_change_voices_dir with a directory selected that has the model files found
on_change_voices_dir(s, found) ==
    load_voices([s EXCEPT !.last_wav_path = 0,
                          !.preview_wav_path = 0,
                          !.lookups = << >>], found)

\* SynthesisWorker.run emitting finished only when synthesize_to_wav returns
worker_run_silent(s, w, ok) ==
    [s EXCEPT !.workers = @ \ {w},
              !.files = IF ok THEN file_put(@, w.out_path, SynthFile(w.out_path)) ELSE @,
              !.signals = IF ok
                          THEN Append(@, [ok |-> TRUE, path |-> w.out_path])
                          ELSE @]

\* SynthesisWorker.run: synthesize_to_wav returns or raises, then finished
\* is emitted to the control thread
worker_run(s, w, ok) ==
    [s EXCEPT !.workers = @ \ {w},
              !.files = IF ok THEN file_put(@, w.out_path, SynthFile(w.out_path)) ELSE @,
              !.signals = Append(@, [ok |-> ok,
                                     path |-> IF ok THEN w.out_path ELSE 0])]

\* ---------------------------------------------------------------- actions
\* the slots that ask for a synthesis job
RequestSlots == {"on_generate", "on_preview", "on_save", "auto_generate"}

\* the next stage of the run auto-retry, save, preview, each recorded while
\* the same job is running; anything else starts the run over
priority_next(name) ==
    IF ~is_busy
    THEN 0
    ELSE IF name = "auto_generate"
    THEN 1
    ELSE IF priority_run = 1 /\ name = "on_save" /\ pending_save_path' # ""
    THEN 2
    ELSE IF priority_run = 2 /\ name = "on_preview" /\ no_last_wav(St)
    THEN 3
    ELSE 0

\* the slots that end in on_generate, entered in the current state
enters_on_generate(name) ==
    \/ name = "on_generate"
    \/ name = "on_preview" /\ no_last_wav(St)
    \/ name = "on_save" /\ ~text_missing(St) /\ no_last_wav(St)

latch_next(name) ==
    [manual |-> latch.manual \/ enters_on_generate(name),
     toggled |-> latch.toggled \/ (name = "on_auto_toggle" /\ auto_toggle')]

\* a change of the voices directory makes the job in flight a job of the
\* old directory; the completion handler ends it
stale_next(name) ==
    IF name = "on_change_voices_dir"
    THEN Cardinality(workers) + Len(signals) > 0
    ELSE IF name = "on_generated"
    THEN FALSE
    ELSE stale

\* no text edit is waiting for the timer
NoBurst == [edits |-> 0, since |-> 0, from_empty |-> FALSE, fired |-> FALSE, jobs |-> 0]

Min(a, b) == IF a < b THEN a ELSE b

\* the burst after the slot name: an edit that schedules the timer joins the
\* burst whose timer is still to fire or begins one, the timeout ends it, and
\* any other slot interrupts it
burst_next(name) ==
    IF name = "on_text_changed"
    THEN IF auto_generate_enabled /\ ~is_busy
         THEN [edits |-> IF burst.edits >= 1 /\ ~burst.fired
                         THEN Min(burst.edits + 1, 2) ELSE 1,
               since |-> 0,
               from_empty |-> last_text_len = 0,
               fired |-> FALSE,
               jobs |-> 0]
         ELSE NoBurst
    ELSE IF name = "auto_generate" /\ burst.edits >= 1 /\ ~burst.fired
    THEN [burst EXCEPT !.fired = TRUE,
                       !.jobs = Cardinality(workers') - Cardinality(workers)]
    ELSE NoBurst

Ran(name) ==
    /\ IF "op" \in recording
       THEN /\ op' = [name |-> IF name \in RequestSlots \cup {"on_generated"}
                               THEN name ELSE "other",
                      busy |-> is_busy]
            /\ priority_run' = priority_next(name)
       ELSE UNCHANGED << op, priority_run >>
    /\ IF "latch" \in recording
       THEN latch' = latch_next(name)
       ELSE UNCHANGED latch
    /\ IF "burst" \in recording
       THEN burst' = burst_next(name)
       ELSE UNCHANGED burst
    /\ IF "stale" \in recording
       THEN stale' = stale_next(name)
       ELSE UNCHANGED stale
    /\ UNCHANGED call

\* the paths some attribute, running worker or queued signal still names
named_paths(s) ==
    {s.last_wav_path, s.preview_wav_path}
        \cup {w.out_path : w \in s.workers}
        \cup {s.signals[i].path : i \in 1 .. Len(s.signals)}

\* s with the files nothing names any more dropped
forget(s) ==
    [s EXCEPT !.files = [p \in (DOMAIN @) \cap named_paths(s) |-> @[p]]]

Step(s, name) ==
    /\ Becomes(forget(s))
    /\ Ran(name)

\* the attributes __init__ sets, and the histories empty
Constructed(histories) ==
    /\ text = [len |-> 0, blank |-> TRUE]
    /\ voice \in {0, 1}
    /\ pitch = PITCH_NEUTRAL
    /\ rate = DEFAULT_RATE
    /\ auto_toggle = FALSE
    /\ playback = "Stopped"
    /\ last_wav_path = 0
    /\ preview_wav_path = 0
    /\ preview_pitch = PITCH_NEUTRAL
    /\ pending_preview = FALSE
    /\ pending_save_path = ""
    /\ auto_generate_enabled = FALSE
    /\ auto_pending = FALSE
    /\ is_busy = FALSE
    /\ last_text_len = 0
    /\ timer_active = FALSE
    /\ timer_interval = AUTO_GENERATE_DELAY_MS
    /\ timer_remaining = 0
    /\ workers = {}
    /\ signals = << >>
    /\ saved = [exit |-> "none", left |-> 0]
    /\ lookups = << >>
    /\ op = [name |-> "other", busy |-> FALSE]
    /\ priority_run = 0
    /\ latch = [manual |-> FALSE, toggled |-> FALSE]
    /\ burst = NoBurst
    /\ stale = FALSE
    /\ recording = histories

\* no method of the service is called on its own
NoCall == [fn |-> "none"]

Started(histories) ==
    /\ files = << >>
    /\ call = NoCall
    /\ Constructed(histories)

TextChanged == \E t \in Texts \ {text} : Step(on_text_changed(St, t), "other")

VoiceSelected ==
    /\ voice # 0
    /\ \E v \in Voices \ {voice} :
           Step(on_params_changed([St EXCEPT !.voice = v]), "other")

PitchSelected ==
    \E p \in PitchOptions \ {pitch} : \E ffmpeg \in FfmpegOutcomes :
        Step(on_pitch_changed(St, p, ffmpeg), "other")

AutoToggled == Step(set_checked(St, ~auto_toggle), "on_auto_toggle")

VoicesDirChanged ==
    \E found \in {{}, Voices} : Step(on_change_voices_dir(St, found), "on_change_voices_dir")

GenerateClicked == Step(on_generate(St), "on_generate")

PreviewClicked ==
    \E ffmpeg \in FfmpegOutcomes : Step(on_preview(St, ffmpeg), "on_preview")

SaveClicked ==
    \E file_path \in SavePaths : \E ffmpeg \in FfmpegOutcomes :
        \E encoder \in EncoderOutcomes :
            Step(on_save(St, file_path, ffmpeg, encoder), "on_save")

StopClicked == Step([St EXCEPT !.playback = "Stopped"], "other")

\* the player reaches the end of the media
MediaEnded ==
    /\ playback = "Playing"
    /\ Step([St EXCEPT !.playback = "Stopped"], "other")

\* _auto_timer.timeout -> _auto_generate
AutoTimerFired ==
    /\ timer_active
    /\ timer_remaining = 0
    /\ Step(generate_audio([St EXCEPT !.timer_active = FALSE], FALSE), "auto_generate")

WorkerRun ==
    \E w \in workers : \E ok \in BOOLEAN : Step(worker_run(St, w, ok), "other")

\* the queued finished signal is delivered to _on_generated
Generated ==
    /\ signals # << >>
    /\ \E ffmpeg \in FfmpegOutcomes : \E encoder \in EncoderOutcomes :
        LET sig == Head(signals)
            s == on_generated([St EXCEPT !.signals = Tail(@)], sig.ok, sig.path,
                              ffmpeg, encoder)
        IN  /\ Becomes(forget(s))
            /\ Ran("on_generated")

Next ==
    \/ TextChanged
    \/ VoiceSelected
    \/ PitchSelected
    \/ AutoToggled
    \/ VoicesDirChanged
    \/ GenerateClicked
    \/ PreviewClicked
    \/ SaveClicked
    \/ StopClicked
    \/ MediaEnded
    \/ AutoTimerFired
    \/ WorkerRun
    \/ Generated

Init == Started({})

Spec == Init /\ [][Next]_vars

\* the same program with the request history recorded
InitRequests == Started({"op"})

SpecRequests == InitRequests /\ [][Next]_vars

\* the same program with the lookup history recorded
InitLookups == Started({"lookups"})

SpecLookups == InitLookups /\ [][Next]_vars

\* the requests and the completions of the synthesis jobs
NextJobs ==
    \/ TextChanged
    \/ AutoToggled
    \/ GenerateClicked
    \/ PreviewClicked
    \/ SaveClicked
    \/ AutoTimerFired
    \/ WorkerRun
    \/ Generated

\* the program with the request history recorded, its worker thread
\* scheduled and its subprocess returning, and the control thread's event
\* loop delivering the queued finished signal
SpecJobs ==
    /\ InitRequests
    /\ [][NextJobs]_vars
    /\ WF_vars(WorkerRun)
    /\ WF_vars(Generated)

\* the save dialog returns a wav or an mp3 file name
SaveClickedAs ==
    \E file_path \in ExportPaths : \E ffmpeg \in FfmpegOutcomes :
        \E encoder \in EncoderOutcomes :
            Step(on_save(St, file_path, ffmpeg, encoder), "on_save")

\* the slots that lead to a save and the save with both export formats
NextSave ==
    \/ TextChanged
    \/ PitchSelected
    \/ VoicesDirChanged
    \/ GenerateClicked
    \/ SaveClickedAs
    \/ WorkerRun
    \/ Generated

InitSave == Started({"save"})

SpecSave == InitSave /\ [][NextSave]_vars

\* the editor's text changes to one of the texts the debounce policy tells apart
TextEdited ==
    \E t \in EditTexts \ {text} : Step(on_text_changed(St, t), "on_text_changed")

RateSelected ==
    \E r \in RateOptions \ {rate} :
        Step(on_params_changed([St EXCEPT !.rate = r]), "other")

\* the clock moves on while the timer runs, up to the timer's expiry
Tick ==
    /\ "clock" \in recording
    /\ timer_active
    /\ timer_remaining > 0
    /\ \E d \in TimeSteps :
           LET elapsed == Min(d, timer_remaining)
           IN  /\ Becomes([St EXCEPT !.timer_remaining = @ - elapsed])
               /\ burst' = IF burst.edits >= 1 /\ ~burst.fired
                           THEN [burst EXCEPT !.since =
                                    Min(@ + elapsed, AUTO_GENERATE_DELAY_LARGE_MS)]
                           ELSE burst
               /\ UNCHANGED << op, priority_run, latch, stale, call >>

\* the program with the clock of the auto-generate timer and the bursts of
\* text edits recorded
NextDebounce ==
    \/ TextEdited
    \/ VoiceSelected
    \/ RateSelected
    \/ PitchSelected
    \/ AutoToggled
    \/ GenerateClicked
    \/ AutoTimerFired
    \/ Tick
    \/ WorkerRun
    \/ Generated

InitDebounce == Started({"clock", "burst"})

SpecDebounce == InitDebounce /\ [][NextDebounce]_vars

\* apply_pitch_to_wav called on its own
ApplyPitch ==
    /\ call.fn = "apply_pitch_to_wav"
    /\ ~call.done
    /\ LET r == apply_pitch_to_wav(St, call.src, call.dest, call.p, call.ffmpeg)
       IN  /\ Becomes(r.st)
           /\ call' = [call EXCEPT !.done = TRUE, !.ok = r.ok, !.err = r.err,
                                   !.ran = r.ran]
    /\ UNCHANGED << op, priority_run, latch, burst, stale >>

\* a synthesized wav at path 1 and, at path 2, a new temporary file or an
\* earlier output; the call's source is path 1, its destination either
InitPitch ==
    /\ Constructed({})
    /\ \E held \in {EmptyFile, PitchFile(1, 12500)} :
           files = << SynthFile(1), held >>
    /\ \E dest \in {1, 2} : \E p \in PitchValues : \E ffmpeg \in FfmpegOutcomes :
           call = [fn |-> "apply_pitch_to_wav", src |-> 1, dest |-> dest, p |-> p,
                   ffmpeg |-> ffmpeg, before |-> files, done |-> FALSE,
                   ok |-> FALSE, err |-> "", ran |-> FALSE]

SpecPitch == InitPitch /\ [][ApplyPitch]_vars

\* _apply_volume_to_wav called on its own
ApplyVolume ==
    /\ call.fn = "_apply_volume_to_wav"
    /\ ~call.done
    /\ call' = [call EXCEPT
                   !.done = TRUE,
                   !.out = apply_volume_to_wav(call.src, call.dest,
                                               call.same_path, call.volume),
                   !.returned = apply_volume_returns(call.src, call.volume)]
    /\ UNCHANGED << text, voice, pitch, rate, auto_toggle, playback,
                    last_wav_path, preview_wav_path, preview_pitch,
                    pending_preview, pending_save_path, auto_generate_enabled,
                    auto_pending, is_busy, last_text_len, timer_active,
                    timer_interval, timer_remaining, workers, signals, files,
                    saved, lookups, op, priority_run, latch, burst, stale, recording >>

\* a wav file at src_path, and dest_path either the same path or one with
\* no file yet
InitVolume ==
    /\ Constructed({})
    /\ files = << >>
    /\ \E src \in WavFiles : \E same_path \in BOOLEAN : \E volume \in VolumeValues :
           call = [fn |-> "_apply_volume_to_wav", src |-> src,
                   dest |-> IF same_path THEN src ELSE NoWav,
                   same_path |-> same_path, volume |-> volume,
                   done |-> FALSE, out |-> NoWav, returned |-> ""]

SpecVolume == InitVolume /\ [][ApplyVolume]_vars

\* synthesize_to_wav called on its own, for the first and then the second
\* of two requests
Synthesize ==
    /\ call.fn = "synthesize_to_wav"
    /\ Len(call.cmds) < 2
    /\ LET req == IF Len(call.cmds) = 0 THEN call.a ELSE call.b
       IN  call' = [call EXCEPT
                       !.cmds = Append(@, synth_command(req.text, req.config,
                                                        req.out_path)),
                       !.scales = Append(@, rate_to_length_scale(req.config.rate))]
    /\ UNCHANGED << text, voice, pitch, rate, auto_toggle, playback,
                    last_wav_path, preview_wav_path, preview_pitch,
                    pending_preview, pending_save_path, auto_generate_enabled,
                    auto_pending, is_busy, last_text_len, timer_active,
                    timer_interval, timer_remaining, workers, signals, files,
                    saved, lookups, op, priority_run, latch, burst, stale, recording >>

\* two requests: the second one is the first one with another pitch,
\* volume, rate, text, voice or output path
InitSynth ==
    /\ Constructed({})
    /\ files = << >>
    /\ \E r \in RateValues : \E vol \in {90, 100} :
       \E b_rate \in {r, DEFAULT_RATE} : \E b_vol \in {50, 90} :
       \E b_pitch \in {7500, PITCH_NEUTRAL} : \E b_text \in {"ola", "bom dia"} :
       \E b_voice \in Voices : \E b_out \in {1, 2} :
           call = [fn |-> "synthesize_to_wav",
                   a |-> [text |-> "ola", out_path |-> 1,
                          config |-> [voice_id |-> 1, rate |-> r, volume |-> vol,
                                      pitch |-> PITCH_NEUTRAL]],
                   b |-> [text |-> b_text, out_path |-> b_out,
                          config |-> [voice_id |-> b_voice, rate |-> b_rate,
                                      volume |-> b_vol, pitch |-> b_pitch]],
                   cmds |-> << >>, scales |-> << >>]

SpecSynth == InitSynth /\ [][Synthesize]_vars

\* the same program with the jobs of an old voices directory recorded
InitDir == Started({"stale"})

SpecDir == InitDir /\ [][Next]_vars

\* the same program with the opt-in history recorded
InitLatch == Started({"latch"})

SpecLatch == InitLatch /\ [][Next]_vars

\* ------------------------------------------------------------- properties
\* jobs whose completion the control thread has not handled yet
InFlight == Cardinality(workers) + Len(signals)

\* this step is _on_generated handling a finished signal with the given ok
Completion(ok) ==
    /\ signals # << >>
    /\ Head(signals).ok = ok
    /\ signals' = Tail(signals)

ExplicitPending == pending_preview \/ pending_save_path # ""

PendingRecorded ==
    { k \in {"preview", "save", "auto"} :
        \/ k = "preview" /\ pending_preview
        \/ k = "save" /\ pending_save_path # ""
        \/ k = "auto" /\ auto_pending }

\* C1: at most one synthesis worker is running or awaiting its completion
\* handler in every reachable state, whatever requests arrive meanwhile.
C1_SingleFlight == InFlight <= 1 /\ (InFlight = 1 => is_busy)

\* a request slot was entered while the job was running, and the job still is
C1_Witness ==
    /\ op.busy
    /\ op.name \in RequestSlots
    /\ Cardinality(workers) = 1

\* C2: when the completion handler has handled a failure, no pending action
\* remains recorded.
C2_FailureDropsPending ==
    [][Completion(FALSE) =>
          /\ ~pending_preview'
          /\ pending_save_path' = ""
          /\ ~auto_pending']_vars

\* C3: a successful completion that finds both a pending save and a pending
\* preview executes the save.
C3_SaveBeforePreview ==
    [][(Completion(TRUE) /\ pending_preview /\ pending_save_path # "") =>
          pending_save_path' = ""]_vars

\* C4: at most one of pending-preview, pending-save and pending-auto-retry is
\* recorded in every reachable state.
C4_AtMostOnePending == Cardinality(PendingRecorded) <= 1

\* C5: while a job is running, an explicit preview or save request that gets
\* recorded leaves no auto-retry recorded, and an auto-retry request arriving
\* while an explicit request is pending is not recorded.
C5_ExplicitBeatsAuto ==
    [][is_busy =>
          /\ (op'.name \in {"on_preview", "on_save"} /\ ExplicitPending')
                 => ~auto_pending'
          /\ (op'.name = "auto_generate" /\ ExplicitPending)
                 => auto_pending' = auto_pending]_vars

\* C6: with a job running, recording auto-retry, then save, then preview
\* leaves only the save recorded.
C6_OnlySaveRetained == priority_run = 3 => PendingRecorded = {"save"}

C8_InvalidRequestNoChange ==
    [][(/\ ~is_busy
        /\ text.blank \/ voice = 0
        /\ \/ op'.name \in {"on_generate", "auto_generate"}
           \/ op'.name \in {"on_preview", "on_save"} /\ no_last_wav(St)) =>
          UNCHANGED << is_busy, pending_preview, pending_save_path, auto_pending,
                       auto_generate_enabled, last_wav_path, preview_wav_path,
                       preview_pitch >>]_vars

\* C9: a cached preview file was produced from the current last synthesis
\* result at the recorded cache pitch, so a lookup that takes it returns a
\* derivative of the current result at the requested pitch.
C9_PreviewCacheValid ==
    preview_wav_path # 0 =>
        /\ last_wav_path # 0
        /\ preview_wav_path \in DOMAIN files
        /\ files[preview_wav_path] = PitchFile(last_wav_path, preview_pitch)
        /\ preview_cached(St, pitch) =>
               files[preview_wav_path] = PitchFile(last_wav_path, pitch)

\* a derivative of the current result is cached and being played
C9_Witness ==
    /\ preview_wav_path # 0
    /\ preview_cached(St, pitch)
    /\ playback = "Playing"

\* the lookups of the history that invoked the pitch adapter
AdapterCalls == { i \in 1 .. Len(lookups) : lookups[i] # "hit" }

\* C10 as stated: two consecutive lookups with nothing invalidating the cache
\* in between invoke the pitch adapter exactly once.
C10_TwoLookupsOneCall == Len(lookups) = 2 => Cardinality(AdapterCalls) = 1

\* C10 amended: the first lookup after a new result, pitch change or
\* directory change invokes the pitch adapter; the second one is served from
\* the cache when that call succeeded and invokes the adapter again when it
\* failed.
C10_CacheHitMiss ==
    /\ Len(lookups) >= 1 => lookups[1] # "hit"
    /\ Len(lookups) = 2 =>
           /\ lookups[1] = "ok" => lookups[2] = "hit"
           /\ lookups[1] = "fail" => lookups[2] # "hit"

\* two lookups in a row, the second one served from the cache
C10_Witness == lookups = << "ok", "hit" >> /\ preview_wav_path # 0

\* this step is the timer's timeout starting a synthesis job
AutoJobStarted ==
    /\ timer_active
    /\ ~timer_active'
    /\ Cardinality(workers') > Cardinality(workers)

\* C11 as stated: the auto-generate timer is scheduled and an automatic job
\* starts only in a session whose user has asked for a manual generation.
C11_OptInLatch ==
    [][/\ timer_active' => latch'.manual
       /\ AutoJobStarted => latch.manual]_vars

LatchOpened == latch.manual \/ latch.toggled

\* C11 amended: the auto-generate timer is scheduled and an automatic job
\* starts only in a session whose user has asked for a manual generation or
\* has checked the auto toggle.
C11_LatchOpened ==
    [][/\ timer_active' => LatchOpened'
       /\ AutoJobStarted => LatchOpened]_vars

\* a job is running that no manual request started: the user checked the
\* auto toggle and the timer's timeout started it
C11_Witness ==
    /\ workers # {}
    /\ latch.toggled
    /\ ~latch.manual

\* this step is _on_text_changed with auto-generation enabled and no job running
EditScheduling == text' # text /\ auto_generate_enabled /\ ~is_busy

\* C12: a text change with auto-generation enabled and no job running
\* (re)starts the timer with 1200 ms if the length grew by 200 or more or is
\* 800 or more, and with 500 ms otherwise; an edit from 0 to 850 characters
\* schedules 1200 ms.
C12_DelaySelection ==
    [][EditScheduling =>
          /\ timer_active'
          /\ timer_interval' =
                 IF text'.len - last_text_len >= 200 \/ text'.len >= 800
                 THEN 1200 ELSE 500
          /\ timer_remaining' = timer_interval'
          /\ (last_text_len = 0 /\ text'.len = 850) => timer_remaining' = 1200]_vars

\* one edit took the text from empty to 850 characters and the timer runs
\* with the long delay
C12_Witness ==
    /\ text.len = 850
    /\ burst.edits = 1
    /\ burst.from_empty
    /\ burst.since = 0
    /\ timer_active
    /\ timer_remaining = 1200

\* C13 as stated: the timeout that ends a burst of edits comes no sooner
\* than the delay after the last edit and starts exactly one synthesis job.
C13_BurstStartsOneJob ==
    burst.fired => (burst.since >= timer_interval /\ burst.jobs = 1)

\* C13 amended: each edit of a burst restarts the timer with its whole
\* delay; the one timeout that ends the burst comes when the delay has
\* elapsed since the last edit, and it starts one synthesis job if the text
\* is not blank and a voice is selected, and none otherwise.
C13_BurstCoalesced ==
    /\ (burst.edits >= 1 /\ ~burst.fired) =>
           /\ timer_active
           /\ timer_remaining + burst.since = timer_interval
    /\ burst.fired =>
           /\ ~timer_active
           /\ burst.since >= timer_interval
           /\ burst.jobs = IF ~text.blank /\ voice # 0 THEN 1 ELSE 0

\* the timeout after a burst of two or more edits has started its job
C13_Witness ==
    /\ burst.edits = 2
    /\ burst.fired
    /\ burst.jobs = 1
    /\ Cardinality(workers) = 1

\* C14 as stated: with auto-generation enabled and no job running, a voice,
\* rate or pitch selection restarts the timer with 500 ms.
C14_ParamsRestartTimer ==
    [][((voice' # voice \/ rate' # rate \/ pitch' # pitch)
            /\ auto_generate_enabled /\ ~is_busy) =>
          /\ timer_active'
          /\ timer_interval' = 500
          /\ timer_remaining' = 500]_vars

\* C14 amended: with auto-generation enabled and no job running, a voice or
\* rate selection restarts the timer with 500 ms; a pitch selection leaves
\* the timer as it is.
C14_VoiceRateRestartTimer ==
    [][/\ ((voice' # voice \/ rate' # rate)
               /\ auto_generate_enabled /\ ~is_busy) =>
             /\ timer_active'
             /\ timer_interval' = 500
             /\ timer_remaining' = 500
       /\ pitch' # pitch =>
             UNCHANGED << timer_active, timer_interval, timer_remaining >>]_vars

\* after an edit that asked for the long delay, a selection of another rate
\* has restarted the timer with the short one
C14_Witness ==
    /\ rate # DEFAULT_RATE
    /\ last_text_len >= 800
    /\ burst = NoBurst
    /\ ~is_busy
    /\ auto_generate_enabled
    /\ timer_active
    /\ timer_interval = 500
    /\ timer_remaining = 500

\* a valid generate request made in this state, if it is idle, starts a job
GenerateAccepted ==
    (~is_busy /\ ~text.blank /\ voice # 0) =>
        LET s == on_generate(St)
        IN  /\ s.is_busy
            /\ Cardinality(s.workers) = 1

\* C15: a job that is running eventually completes, with the busy flag false
\* again; the handling of a failed job leaves the orchestrator idle, and an
\* idle orchestrator starts a new job on a valid generate request.
C15_JobsComplete ==
    /\ is_busy ~> (~is_busy /\ InFlight = 0)
    /\ [][Completion(FALSE) => (~is_busy' /\ GenerateAccepted')]_vars
    /\ [][(~is_busy /\ ~text.blank /\ voice # 0 /\ op'.name = "on_generate") =>
            Cardinality(workers') = 1]_vars

\* the first job has failed and its completion is handled: the orchestrator
\* is idle with no result, and a valid request is about to be made
C15_Witness ==
    /\ op.name = "on_generated"
    /\ last_wav_path = 0
    /\ ~is_busy
    /\ ~text.blank
    /\ voice # 0

\* C16: when a save has returned, on whichever path, no temporary file made
\* during it exists any more.
C16_SaveLeavesNoTemp == saved.exit # "none" => saved.left = 0

\* the call of apply_pitch_to_wav has returned or raised
PitchCallDone == call.fn = "apply_pitch_to_wav" /\ call.done

\* the files other than the call's destination are as before the call
OthersUntouched ==
    \A path \in DOMAIN call.before :
        path # call.dest => (path \in DOMAIN files /\ files[path] = call.before[path])

\* C17: when apply_pitch_to_wav fails (pitch out of range, resampler missing,
\* resampler exit non-zero) the file at the destination path has the content
\* it had before; the destination gets the resampled audio only when the
\* resampler has exited with status 0.
C17_FailureKeepsDest ==
    PitchCallDone =>
        /\ ~call.ok =>
               /\ call.err \in {"range", "missing", "failed"}
               /\ files[call.dest] = call.before[call.dest]
               /\ OthersUntouched
        /\ files[call.dest] = PitchFile(call.src, call.p) =>
               (call.ok /\ call.ran /\ call.ffmpeg = "ok")

\* the resampler exited non-zero and the earlier output at the destination
\* is still there
C17_Witness ==
    /\ PitchCallDone
    /\ call.err = "failed"
    /\ call.dest = 2
    /\ call.before[2] = PitchFile(1, 12500)
    /\ files[2] = PitchFile(1, 12500)

\* C18: for a pitch p with |p - 1.0| >= 0.001, apply_pitch_to_wav raises the
\* out-of-range error if and only if p < 0.5 or p > 2.0, whether or not the
\* resampler is installed, and then no file is created and no subprocess run.
C18_RangeCheck ==
    (PitchCallDone /\ Abs(call.p - 10000) >= 10) =>
        /\ call.err = "range" <=> (call.p < 5000 \/ call.p > 20000)
        /\ call.err = "range" =>
               /\ ~call.ok
               /\ ~call.ran
               /\ files = call.before

\* the pitch 0.49 is refused as out of range with no resampler installed,
\* and nothing was written
C18_Witness ==
    /\ PitchCallDone
    /\ call.p = 4900
    /\ call.ffmpeg = "missing"
    /\ call.err = "range"
    /\ files = call.before

\* C19: for a pitch p with |p - 1.0| < 0.001, apply_pitch_to_wav runs no
\* resampler and leaves at the destination the content of the source, and
\* every file untouched when source and destination are the same path.
C19_NeutralCopies ==
    (PitchCallDone /\ Abs(call.p - 10000) < 10) =>
        /\ call.ok
        /\ ~call.ran
        /\ files[call.dest] = call.before[call.src]
        /\ files[call.src] = call.before[call.src]
        /\ DOMAIN files = DOMAIN call.before
        /\ call.src = call.dest => files = call.before

\* the pitch 1.0009, with no resampler installed, has copied the source over
\* the destination's earlier content
C19_Witness ==
    /\ PitchCallDone
    /\ call.p = 10009
    /\ call.ffmpeg = "missing"
    /\ call.dest = 2
    /\ call.before[2] # call.before[1]
    /\ files[2] = call.before[1]

\* a call of _apply_volume_to_wav on a 16-bit wav with a factor in [0, 2]
\* has returned
GainCallDone ==
    /\ call.fn = "_apply_volume_to_wav"
    /\ call.done
    /\ call.src.sampwidth = 2
    /\ call.volume \in 0 .. 200

\* C20: for a gain factor in [0, 2] every output sample of the gain lies in
\* [-32768, 32767], and a product beyond a bound gives that bound.
C20_GainSaturates ==
    GainCallDone =>
        /\ DOMAIN call.out.samples = DOMAIN call.src.samples
        /\ \A i \in DOMAIN call.out.samples :
               LET product == call.src.samples[i] * call.volume
                   sample == call.out.samples[i]
               IN  /\ sample \in -32768 .. 32767
                   /\ product > 32767 * 100 => sample = 32767
                   /\ product < -32768 * 100 => sample = -32768

\* the factor 2.0 on the samples 20000 and -32768 gave both bounds
C20_Witness ==
    /\ GainCallDone
    /\ call.volume = 200
    /\ call.src.samples = << 20000, -32768 >>
    /\ call.out.samples = << 32767, -32768 >>

\* the integer n lies within one half of product / 100
NearestTo(n, product) == Abs(100 * n - product) <= 50

Clamped(n) == IF n > 32767 THEN 32767 ELSE IF n < -32768 THEN -32768 ELSE n

\* C21: for a factor in [0, 2] other than 1.0, every output sample of the
\* gain is the product of the sample and the factor rounded to the nearest
\* integer, clamped to [-32768, 32767].
C21_GainRounds ==
    (GainCallDone /\ call.volume # 100) =>
        \A i \in DOMAIN call.src.samples :
            LET product == call.src.samples[i] * call.volume
            IN  \E n \in -65536 .. 65536 :
                    /\ NearestTo(n, product)
                    /\ call.out.samples[i] = Clamped(n)

\* C24: a gain with a factor other than 1.0 on a wav that is not 16-bit
\* leaves at the destination the data of the source, and tells its caller
\* that the format is unsupported.
C24_UnsupportedWidthPassesThrough ==
    (/\ call.fn = "_apply_volume_to_wav"
     /\ call.done
     /\ call.src.sampwidth # 2
     /\ call.volume \in 0 .. 200
     /\ call.volume # 100) =>
        /\ call.out = call.src
        /\ call.returned # "None"

\* C22: for a positive rate the length scale is 180 / rate clamped to
\* [0.5, 2.0]: 2.0 for the rate 90, 0.6 for 300, 1.0 for 180.
C22_LengthScale ==
    (call.fn = "synthesize_to_wav" /\ Len(call.scales) >= 1
         /\ call.a.config.rate > 0) =>
        LET r == call.a.config.rate
            q == call.scales[1]
        IN  /\ q.den > 0
            /\ IF 180 > 2 * r THEN q.num = 2 * q.den
               ELSE IF 2 * 180 < r THEN 2 * q.num = q.den
               ELSE q.num * r = 180 * q.den
            /\ q.den <= 2 * q.num
            /\ q.num <= 2 * q.den
            /\ r = 90 => q.num = 2 * q.den
            /\ r = 300 => 10 * q.num = 6 * q.den
            /\ r = 180 => q.num = q.den

\* the rate 300 gave the scale 0.6, which the command carries as 0.600
C22_Witness ==
    /\ call.fn = "synthesize_to_wav"
    /\ Len(call.scales) >= 1
    /\ call.a.config.rate = 300
    /\ 10 * call.scales[1].num = 6 * call.scales[1].den
    /\ call.cmds[1][9] = 600

\* C23: two calls of synthesize_to_wav with the same text, voice, rate and
\* output path run the same command, whatever their pitch and volume.
C23_CommandIgnoresPitchVolume ==
    (/\ call.fn = "synthesize_to_wav"
     /\ Len(call.cmds) = 2
     /\ call.a.text = call.b.text
     /\ call.a.config.voice_id = call.b.config.voice_id
     /\ call.a.config.rate = call.b.config.rate
     /\ call.a.out_path = call.b.out_path) =>
        call.cmds[1] = call.cmds[2]

\* two calls that differ in pitch and in volume only have run one command
C23_Witness ==
    /\ call.fn = "synthesize_to_wav"
    /\ Len(call.cmds) = 2
    /\ call.a.config.pitch # call.b.config.pitch
    /\ call.a.config.volume # call.b.config.volume
    /\ call.a.config.rate = call.b.config.rate
    /\ call.cmds[1] = call.cmds[2]

\* C25: on a successful completion the job's path becomes the last result,
\* the preview cache is emptied and the busy flag is cleared before the
\* pending action is taken: what the handler leaves is what the pending
\* action makes of that idle state, the new result is still the last one, and
\* the busy flag is set again only if the pending action started a job.
C25_StoredBeforeDrain ==
    [][Completion(TRUE) =>
          LET path == Head(signals).path
              idle == [St EXCEPT !.signals = Tail(@),
                                 !.is_busy = FALSE,
                                 !.last_wav_path = path,
                                 !.preview_wav_path = 0,
                                 !.preview_pitch = PITCH_NEUTRAL,
                                 !.lookups = << >>]
          IN  /\ last_wav_path' = path
              /\ is_busy' => workers' # {}
              /\ preview_wav_path' # 0 =>
                     files'[preview_wav_path'] = PitchFile(path, pitch)
              /\ \E ffmpeg \in FfmpegOutcomes : \E encoder \in EncoderOutcomes :
                     St' = forget(drain_pending(idle, ffmpeg, encoder))]_vars

\* the handler of a successful completion took a pending preview, which
\* plays a derivative it made of the new result
C25_Witness ==
    /\ op.name = "on_generated"
    /\ op.busy
    /\ ~is_busy
    /\ last_wav_path # 0
    /\ ~pending_preview
    /\ playback = "Playing"
    /\ preview_wav_path # 0
    /\ files[preview_wav_path] = PitchFile(last_wav_path, pitch)

\* C26: while the auto toggle is unchecked no automatic job starts: neither
\* a timer scheduled before it was unchecked nor an auto-retry recorded while
\* a job was running leads to one.
C26_NoAutoJobWhileOff ==
    [][AutoJobStarted => (auto_toggle /\ auto_generate_enabled)]_vars

\* C27: a job that was in flight when the voices directory was changed does
\* not install its output as the last result: after its successful
\* completion the last result is still empty.
C27_StaleJobNotInstalled ==
    [][(Completion(TRUE) /\ stale) => last_wav_path' = 0]_vars

\* C28: with auto-generation enabled, a successful completion that finds an
\* auto-retry recorded restarts the timer (or starts a job), so that the
\* retry needs no further user event, whatever else was recorded as pending.
C28_AutoRetryRestartsTimer ==
    [][(Completion(TRUE) /\ auto_pending /\ auto_generate_enabled) =>
          (timer_active' \/ InFlight' > 0)]_vars

\* the files the last result and the preview cache name
ResultFiles ==
    [p \in (DOMAIN files) \cap {last_wav_path, preview_wav_path} |-> files[p]]

\* C29: the completion of a failed job leaves the last result and the
\* preview cache, its path and its pitch, as they were, and the audio they
\* name stays on disk.
C29_FailureKeepsResult ==
    [][Completion(FALSE) =>
          /\ UNCHANGED << last_wav_path, preview_wav_path, preview_pitch >>
          /\ ResultFiles' = ResultFiles]_vars

\* a failed job has been handled, and the result and the stopped cached
\* preview of an earlier job are still there: a successful completion would
\* have emptied the cache or started the preview it made
C29_Witness ==
    /\ op.name = "on_generated"
    /\ op.busy
    /\ ~is_busy
    /\ ~no_last_wav(St)
    /\ preview_cached(St, pitch)
    /\ playback = "Stopped"

\* C30: the busy flag is set exactly while one started worker has its
\* completion still to be handled: it is set in the step that starts the
\* worker, a worker that ends queues exactly one completion, and the step
\* that handles a completion leaves the flag set only for a job it started.
C30_BusyTracksJob ==
    /\ [](is_busy <=> InFlight = 1)
    /\ [][/\ Cardinality(workers') > Cardinality(workers) =>
               (~is_busy /\ is_busy' /\ Cardinality(workers') = 1)
          /\ Cardinality(workers') < Cardinality(workers) =>
               (/\ Len(signals') = Len(signals) + 1
                /\ Cardinality(workers') = Cardinality(workers) - 1
                /\ is_busy')
          /\ Len(signals') < Len(signals) =>
               (/\ Len(signals') = Len(signals) - 1
                /\ is_busy' <=> workers' # {})]_vars

\* the worker has ended and its one completion waits to be handled, with
\* the busy flag still set
C30_Witness ==
    /\ is_busy
    /\ workers = {}
    /\ Len(signals) = 1
    /\ ~Head(signals).ok

====
